---------------------------- MODULE Spec2Model ----------------------------
(***************************************************************************)
(* Model of GenerateAction.onExecute ("rush generate"): the construction   *)
(* of common/temp_modules/<tempProjectName>/package.json for every project *)
(* of rush.json and of common/package.json.                                *)
(*                                                                         *)
(* JavaScript values are modelled as follows.                              *)
(*   - an optional value is a sequence of length 0 (undefined) or 1;       *)
(*   - an object used as a dictionary is the sequence of its <<key,value>> *)
(*     properties in insertion order (the order of Object.keys and of the  *)
(*     JSON text written by JsonFile.saveJsonFile);                        *)
(*   - a version is a tuple <<major, minor, patch>>;                       *)
(*   - a version range is a record [op, v]; op "^" is a caret range and    *)
(*     op "?" is a string that is no valid range.                          *)
(***************************************************************************)
EXTENDS Integers, Sequences, FiniteSets, TLC

VARIABLES
    projects,           \* this._rushConfig.projects (read-only input)
    pc,                 \* position in onExecute
    run,                \* number of the current invocation of onExecute
    console,            \* lines written by console.log
    tempModulesExists,  \* does common/temp_modules exist on disk
    tempFolders,        \* sub-folders of common/temp_modules on disk
    tempFiles,          \* temp_modules/<name>/package.json on disk
    commonFile,         \* common/package.json on disk
    commonPackageJson,  \* local commonPackageJson
    i,                  \* index of rushProject in the for loop (line 112)
    tempPackageJson,    \* local tempPackageJson
    pairs,              \* local pairs
    k,                  \* index of pair in the for loop (line 157)
    prev                \* what the previous invocation left on disk

vars == <<projects, pc, run, console, tempModulesExists, tempFolders,
          tempFiles, commonFile, commonPackageJson, i, tempPackageJson,
          pairs, k, prev>>

----------------------------------------------------------------------------
(* Bounds *)

\* Number of consecutive invocations of "rush generate" that are followed.
MaxRuns == 2

\* Names of the packages: the workspace projects are drawn from them.
Names == {"a", "b"}

\* Values of RushConfigProject.tempProjectName.
TempNames == {"rush-a", "rush-b"}

----------------------------------------------------------------------------
(* JavaScript values *)

Undefined == <<>>

Some(x) == <<x>>

EmptyObject == <<>>

\* the keys of obj
KeySet(obj) == {obj[j][1] : j \in 1..Len(obj)}

\* key in obj
Has(obj, key) == key \in KeySet(obj)

\* obj[key], for a key the object has
Get(obj, key) == obj[CHOOSE j \in 1..Len(obj) : obj[j][1] = key][2]

\* obj[key] = value: an existing property keeps its place, a new one is
\* added after the others
Put(obj, key, value) ==
    IF Has(obj, key)
    THEN [j \in 1..Len(obj) |->
            IF obj[j][1] = key THEN <<key, value>> ELSE obj[j]]
    ELSE Append(obj, <<key, value>>)

----------------------------------------------------------------------------
(* semver *)

Caret(v) == [op |-> "^", v |-> v]

NotARange == [op |-> "?", v |-> <<0, 0, 0>>]

\* v >= w
Gte(v, w) ==
    \/ v[1] > w[1]
    \/ v[1] = w[1] /\ v[2] > w[2]
    \/ v[1] = w[1] /\ v[2] = w[2] /\ v[3] >= w[3]

\* the first version above every version a caret range allows
CaretUpper(w) ==
    IF w[1] > 0 THEN <<w[1] + 1, 0, 0>>
    ELSE IF w[2] > 0 THEN <<0, w[2] + 1, 0>>
    ELSE <<0, 0, w[3] + 1>>

\* semver.satisfies with a string that is no range read as "any version"
SatisfiesAnyForNoRange(version, range) ==
    IF version = Undefined THEN FALSE
    ELSE IF range.op = "?" THEN TRUE
    ELSE Gte(version, range.v) /\ ~Gte(version, CaretUpper(range.v))

\* semver.satisfies with a missing version read as "satisfies"
SatisfiesForNoVersion(version, range) ==
    IF range.op = "?" THEN FALSE
    ELSE IF version = Undefined THEN TRUE
    ELSE Gte(version, range.v) /\ ~Gte(version, CaretUpper(range.v))

\* semver.satisfies(version, range): false for a string that is no range
\* and for a missing version
Satisfies(version, range) ==
    IF range.op = "?" THEN FALSE
    ELSE IF version = Undefined THEN FALSE
    ELSE Gte(version, range.v) /\ ~Gte(version, CaretUpper(range.v))

----------------------------------------------------------------------------
(* The input: rush.json and the package.json of every project, as loaded   *)
(* by RushConfig.loadFromDefaultLocation                                   *)

Versions == {<<1, 2, 0>>, <<2, 0, 0>>}

Specifiers == {Caret(<<1, 0, 0>>), Caret(<<2, 0, 0>>), NotARange}

\* devDependencies and dependencies of a package.json: absent, or one entry
DependencyObjects ==
    {Undefined} \cup {Some(<<<<n, s>>>>) : n \in Names, s \in Specifiers}

\* optionalDependencies of a package.json: absent, empty, or one entry
OptionalObjects ==
    {Undefined, Some(EmptyObject)}
        \cup {Some(<<<<n, Caret(<<1, 0, 0>>)>>>>) : n \in Names}

PackageJsons ==
    [version : Versions \cup {Undefined},
     devDependencies : DependencyObjects,
     dependencies : DependencyObjects,
     optionalDependencies : OptionalObjects]

\* the package.json files that declare no optionalDependencies
PlainPackageJsons ==
    {p \in PackageJsons : p.optionalDependencies = Undefined}

\* the number of entries of an optional dependency object
Entries(maybeObject) ==
    IF maybeObject = Undefined THEN 0 ELSE Len(maybeObject[1])

\* the number of devDependencies and dependencies of a package.json
Declared(p) == Entries(p.devDependencies) + Entries(p.dependencies)

\* the package.json files of one project: any
OnePackageJson == [1..1 -> PackageJsons]

\* the package.json files of two projects: no optionalDependencies, and two
\* dependencies at most between them
TwoPackageJsons ==
    {ps \in [1..2 -> PlainPackageJsons] : Declared(ps[1]) + Declared(ps[2]) <= 2}

\* the sequences of n different package names
NameSequences(n) ==
    {ns \in [1..n -> Names] : \A x, y \in 1..n : ns[x] = ns[y] => x = y}

\* the workspaces of n projects with the given package.json files: the
\* package names are unique, and rush.json gives each project a
\* tempProjectName and its cyclicDependencyProjects
WorkspacesOf(n, packageJsons) ==
    {[j \in 1..n |->
        [packageName |-> ns[j],
         tempProjectName |-> ts[j],
         cyclicDependencyProjects |-> cs[j],
         packageJson |-> ps[j]]] :
        ns \in NameSequences(n),
        ts \in [1..n -> TempNames],
        cs \in [1..n -> {{}, Names}],
        ps \in packageJsons}

Workspaces ==
    WorkspacesOf(1, OnePackageJson) \cup WorkspacesOf(2, TwoPackageJsons)

\* this._rushConfig.getProjectByName(name): Undefined, or the project
GetProjectByName(name) ==
    IF \E j \in 1..Len(projects) : projects[j].packageName = name
    THEN Some(projects[CHOOSE j \in 1..Len(projects) :
                          projects[j].packageName = name])
    ELSE Undefined

----------------------------------------------------------------------------
(* The locals of onExecute *)

\* commonPackageJson as constructed on lines 103-109
NewCommonPackageJson ==
    [dependencies |-> EmptyObject,
     description |-> "Temporary file generated by the Rush tool",
     name |-> "rush-common",
     private |-> TRUE,
     version |-> "0.0.0"]

\* tempPackageJson as constructed on lines 124-129
NewTempPackageJson(tempProjectName) ==
    [name |-> tempProjectName,
     version |-> "0.0.0",
     private |-> TRUE,
     dependencies |-> EmptyObject,
     optionalDependencies |-> Undefined,
     rushDependencies |-> Undefined]

\* the value of the locals outside their scope
NoPackageJson == NewTempPackageJson("")

\* lines 131-134 with the copy left out
DropOptionalDependencies(temp, packageJson) == temp

\* lines 131-134: optionalDependencies is copied when it is truthy
CopyOptionalDependencies(temp, packageJson) ==
    IF packageJson.optionalDependencies # Undefined
    THEN [temp EXCEPT !.optionalDependencies = packageJson.optionalDependencies]
    ELSE temp

\* the pairs pushed for one dependency object (lines 145-149 and 151-155)
PairsOf(maybeObject) ==
    IF maybeObject = Undefined THEN <<>>
    ELSE [j \in 1..Len(maybeObject[1]) |->
            [packageName |-> maybeObject[1][j][1],
             packageVersion |-> maybeObject[1][j][2]]]

\* lines 137-155 with the optionalDependencies collected as well
CollectPairsWithOptional(packageJson) ==
    PairsOf(packageJson.optionalDependencies)
        \o PairsOf(packageJson.devDependencies)
        \o PairsOf(packageJson.dependencies)

\* lines 137-155: the devDependencies, then the dependencies
CollectPairs(packageJson) ==
    PairsOf(packageJson.devDependencies) \o PairsOf(packageJson.dependencies)

\* lines 162-171 without the test of cyclicDependencyProjects
IsLocallyLinkedDespiteCycle(rushProject, pair) ==
    LET localProject == GetProjectByName(pair.packageName) IN
    /\ localProject # Undefined
    /\ Satisfies(localProject[1].packageJson.version, pair.packageVersion)

\* lines 162-171: is the pair linked to a locally built project
IsLocallyLinked(rushProject, pair) ==
    LET localProject == GetProjectByName(pair.packageName) IN
    /\ localProject # Undefined
    /\ pair.packageName \notin rushProject.cyclicDependencyProjects
    /\ Satisfies(localProject[1].packageJson.version, pair.packageVersion)

\* lines 173-176
AddRushDependency(temp, pair) ==
    LET rushDependencies ==
            IF temp.rushDependencies = Undefined THEN EmptyObject
            ELSE temp.rushDependencies[1]
    IN  [temp EXCEPT !.rushDependencies =
            Some(Put(rushDependencies, pair.packageName, pair.packageVersion))]

\* line 183
AddDependency(temp, pair) ==
    [temp EXCEPT !.dependencies =
        Put(temp.dependencies, pair.packageName, pair.packageVersion)]

\* the body of the loop over the pairs, lines 157-184
Classify(rushProject, temp, pair) ==
    IF IsLocallyLinked(rushProject, pair)
    THEN AddRushDependency(temp, pair)
    ELSE AddDependency(temp, pair)

\* line 120
AddTempProject(common, tempProjectName) ==
    [common EXCEPT !.dependencies =
        Put(common.dependencies, tempProjectName,
            <<"file:./temp_modules/", tempProjectName>>)]

\* lines 86-89 with the folder kept
KeptFolders(folders) == folders

\* lines 86-89: what is left of common/temp_modules
DeletedFolders(folders) == {}

\* mkdirSync replaced by a call that accepts an existing folder
MkdirNeverThrows(folders, tempProjectName) == FALSE

\* fsx.mkdirSync(tempProjectFolder), line 118, throws when the folder exists
MkdirThrows(folders, tempProjectName) == tempProjectName \in folders

----------------------------------------------------------------------------
(* The state machine *)

NoFiles == [t \in TempNames |-> Undefined]

NoPrev ==
    [outcome |-> "none", tempFolders |-> {}, tempFiles |-> NoFiles,
     commonFile |-> Undefined]

Init ==
    /\ projects \in Workspaces
    /\ pc = "start"
    /\ run = 1
    /\ console = <<>>
    /\ tempModulesExists = FALSE
    /\ tempFolders = {}
    /\ tempFiles = NoFiles
    /\ commonFile = Undefined
    /\ commonPackageJson = NewCommonPackageJson
    /\ i = 0
    /\ tempPackageJson = NoPackageJson
    /\ pairs = <<>>
    /\ k = 0
    /\ prev = NoPrev

\* lines 54-89: delete common/temp_modules
DeleteTempModules ==
    /\ pc = "start"
    /\ pc' = "create"
    /\ console' =
        IF tempModulesExists
        THEN <<<<"Starting \"rush generate\"">>,
               <<"Deleting common/temp_modules folder">>>>
        ELSE <<<<"Starting \"rush generate\"">>>>
    /\ tempModulesExists' = FALSE
    /\ tempFolders' = DeletedFolders(tempFolders)
    /\ tempFiles' = [t \in TempNames |->
                        IF t \in DeletedFolders(tempFolders)
                        THEN tempFiles[t] ELSE Undefined]
    /\ UNCHANGED <<projects, run, commonFile, commonPackageJson, i,
                   tempPackageJson, pairs, k, prev>>

\* lines 99-111: create common/temp_modules and commonPackageJson
CreateTempModules ==
    /\ pc = "create"
    /\ pc' = "projects"
    /\ console' = console \o <<<<"Creating a clean common/temp_modules folder">>,
                               <<"Creating temp projects...">>>>
    /\ tempModulesExists' = TRUE
    /\ commonPackageJson' = NewCommonPackageJson
    /\ i' = 1
    /\ UNCHANGED <<projects, run, tempFolders, tempFiles, commonFile,
                   tempPackageJson, pairs, k, prev>>

\* lines 112-118: mkdirSync throws and onExecute ends with the exception
MkdirFails ==
    /\ pc = "projects"
    /\ i <= Len(projects)
    /\ MkdirThrows(tempFolders, projects[i].tempProjectName)
    /\ pc' = "failed"
    /\ UNCHANGED <<projects, run, console, tempModulesExists, tempFolders,
                   tempFiles, commonFile, commonPackageJson, i,
                   tempPackageJson, pairs, k, prev>>

\* lines 112-155: the body of the loop over the projects, up to the pairs
BeginProject ==
    /\ pc = "projects"
    /\ i <= Len(projects)
    /\ ~MkdirThrows(tempFolders, projects[i].tempProjectName)
    /\ LET rushProject == projects[i]
           tempProjectName == rushProject.tempProjectName
       IN  /\ tempFolders' = tempFolders \cup {tempProjectName}
           /\ commonPackageJson' =
                AddTempProject(commonPackageJson, tempProjectName)
           /\ tempPackageJson' =
                CopyOptionalDependencies(NewTempPackageJson(tempProjectName),
                                         rushProject.packageJson)
           /\ pairs' = CollectPairs(rushProject.packageJson)
    /\ k' = 1
    /\ pc' = "pairs"
    /\ UNCHANGED <<projects, run, console, tempModulesExists, tempFiles,
                   commonFile, i, prev>>

\* lines 157-184: one pair
ClassifyPair ==
    /\ pc = "pairs"
    /\ k <= Len(pairs)
    /\ tempPackageJson' = Classify(projects[i], tempPackageJson, pairs[k])
    /\ k' = k + 1
    /\ UNCHANGED <<projects, pc, run, console, tempModulesExists,
                   tempFolders, tempFiles, commonFile, commonPackageJson, i,
                   pairs, prev>>

\* line 186, and the next project
SaveTempPackageJson ==
    /\ pc = "pairs"
    /\ k > Len(pairs)
    /\ tempFiles' = [tempFiles EXCEPT ![projects[i].tempProjectName] =
                        Some(tempPackageJson)]
    /\ i' = i + 1
    /\ tempPackageJson' = NoPackageJson
    /\ pairs' = <<>>
    /\ k' = 0
    /\ pc' = "projects"
    /\ UNCHANGED <<projects, run, console, tempModulesExists, tempFolders,
                   commonFile, commonPackageJson, prev>>

\* lines 189-191
SaveCommonPackageJson ==
    /\ pc = "projects"
    /\ i > Len(projects)
    /\ console' = Append(console, <<"Writing common/package.json">>)
    /\ commonFile' = Some(commonPackageJson)
    /\ pc' = "done"
    /\ UNCHANGED <<projects, run, tempModulesExists, tempFolders, tempFiles,
                   commonPackageJson, i, tempPackageJson, pairs, k, prev>>

\* what onExecute has left on disk
Output ==
    [outcome |-> pc, tempFolders |-> tempFolders, tempFiles |-> tempFiles,
     commonFile |-> commonFile]

\* "rush generate" is started again on the same rush.json
RunAgain ==
    /\ pc \in {"done", "failed"}
    /\ run < MaxRuns
    /\ run' = run + 1
    /\ prev' = Output
    /\ pc' = "start"
    /\ console' = <<>>
    /\ commonPackageJson' = NewCommonPackageJson
    /\ i' = 0
    /\ UNCHANGED <<projects, tempModulesExists, tempFolders, tempFiles,
                   commonFile, tempPackageJson, pairs, k>>

Next ==
    \/ DeleteTempModules
    \/ CreateTempModules
    \/ MkdirFails
    \/ BeginProject
    \/ ClassifyPair
    \/ SaveTempPackageJson
    \/ SaveCommonPackageJson
    \/ RunAgain

Spec == Init /\ [][Next]_vars

----------------------------------------------------------------------------
(* Vocabulary of the properties *)

\* the keys of rushDependencies, none when the field is absent
RushKeys(temp) ==
    IF temp.rushDependencies = Undefined THEN {}
    ELSE KeySet(temp.rushDependencies[1])

\* rushDependencies[pair.packageName] is pair.packageVersion
InRushDependencies(temp, pair) ==
    /\ pair.packageName \in RushKeys(temp)
    /\ Get(temp.rushDependencies[1], pair.packageName) = pair.packageVersion

\* dependencies[pair.packageName] is pair.packageVersion
InDependencies(temp, pair) ==
    /\ Has(temp.dependencies, pair.packageName)
    /\ Get(temp.dependencies, pair.packageName) = pair.packageVersion

\* a workspace project of that name exists
InWorkspace(name) ==
    \E j \in 1..Len(projects) : projects[j].packageName = name

\* a workspace project of that name exists and its version is in the range
VersionSatisfies(name, range) ==
    \E j \in 1..Len(projects) :
        /\ projects[j].packageName = name
        /\ projects[j].packageJson.version # Undefined
        /\ range.op = "^"
        /\ Gte(projects[j].packageJson.version, range.v)
        /\ ~Gte(projects[j].packageJson.version, CaretUpper(range.v))

\* the loop over the pairs has just handled a pair
PairHandled == pc = "pairs" /\ k > 1

LastPair == pairs[k - 1]

\* the project that writes temp_modules/<t>/package.json
Writer(t) ==
    projects[CHOOSE j \in 1..Len(projects) :
                /\ projects[j].tempProjectName = t
                /\ \A h \in 1..(j - 1) : projects[h].tempProjectName # t]

Written == {t \in TempNames : tempFiles[t] # Undefined}

\* the object, empty when the field is absent
ObjectOf(maybeObject) ==
    IF maybeObject = Undefined THEN EmptyObject ELSE maybeObject[1]

\* the names a project declares in devDependencies or dependencies
DeclaredNames(project) ==
    KeySet(ObjectOf(project.packageJson.devDependencies))
        \cup KeySet(ObjectOf(project.packageJson.dependencies))

\* two projects have the same tempProjectName
Collision ==
    \E x, y \in 1..Len(projects) :
        x # y /\ projects[x].tempProjectName = projects[y].tempProjectName

----------------------------------------------------------------------------
(* Properties *)

\* C1: a pair of devDependencies or dependencies is recorded under
\* rushDependencies if and only if a workspace project of its name exists, the
\* name is not in the cyclicDependencyProjects of the project that declares
\* it, and the version of that project satisfies the specifier; otherwise it
\* is recorded under dependencies.
ClassificationLaw ==
    PairHandled =>
        LET local ==
                /\ InWorkspace(LastPair.packageName)
                /\ LastPair.packageName
                       \notin projects[i].cyclicDependencyProjects
                /\ VersionSatisfies(LastPair.packageName,
                                    LastPair.packageVersion)
        IN  /\ local <=> InRushDependencies(tempPackageJson, LastPair)
            /\ ~local <=> InDependencies(tempPackageJson, LastPair)

\* C1 witness: of two pairs of a project the first is linked locally and the
\* second, which names a workspace project too, is not
ClassificationWitness ==
    /\ pc = "pairs"
    /\ k = 3
    /\ InRushDependencies(tempPackageJson, pairs[1])
    /\ InWorkspace(pairs[2].packageName)
    /\ InDependencies(tempPackageJson, pairs[2])

\* C2: in every temp package.json written, every name of the project's
\* devDependencies or dependencies is a key of exactly one of rushDependencies
\* and dependencies.
OneEntryPerName ==
    \A t \in Written :
        \A n \in DeclaredNames(Writer(t)) :
            (n \in RushKeys(tempFiles[t][1]))
                # (n \in KeySet(tempFiles[t][1].dependencies))

\* C3: in every temp package.json written, a name of the project's
\* dependencies is recorded, under rushDependencies or dependencies, with the
\* specifier of dependencies only.
RuntimePrecedence ==
    \A t \in Written :
        LET runtime == PairsOf(Writer(t).packageJson.dependencies)
            temp == tempFiles[t][1]
        IN  \A j \in 1..Len(runtime) :
                LET n == runtime[j].packageName IN
                /\ n \in RushKeys(temp) =>
                        Get(temp.rushDependencies[1], n)
                            = runtime[j].packageVersion
                /\ n \in KeySet(temp.dependencies) =>
                        Get(temp.dependencies, n) = runtime[j].packageVersion

\* the projects that come before the first project whose tempProjectName is
\* already taken
BeforeCollision ==
    {j \in 1..Len(projects) :
        \A y \in 1..j : \A x \in 1..(y - 1) :
            projects[x].tempProjectName # projects[y].tempProjectName}

Warns(line, projectName, packageName) ==
    /\ Len(line) >= 3
    /\ line[2] = projectName
    /\ line[3] = packageName

\* the pair handled last names a workspace project that is not exempted, with
\* a specifier that is no range
MalformedHandled ==
    /\ PairHandled
    /\ LastPair.packageVersion = NotARange
    /\ InWorkspace(LastPair.packageName)
    /\ LastPair.packageName \notin projects[i].cyclicDependencyProjects

\* C5 as stated: a pair that names a workspace project, not exempted, with a
\* specifier that cannot be parsed is recorded under dependencies, a warning
\* that names the project and the package is recorded, and the run goes on.
MalformedWarns ==
    MalformedHandled =>
        /\ InDependencies(tempPackageJson, LastPair)
        /\ \E j \in 1..Len(console) :
                Warns(console[j], projects[i].packageName,
                      LastPair.packageName)

\* C5 amended: such a pair is recorded under dependencies and not under
\* rushDependencies, nothing is written to the console for it, and the run
\* goes on: it fails only at a tempProjectName already taken.
MalformedFallsBack ==
    /\ MalformedHandled =>
        /\ InDependencies(tempPackageJson, LastPair)
        /\ ~InRushDependencies(tempPackageJson, LastPair)
        /\ console = <<<<"Starting \"rush generate\"">>,
                       <<"Creating a clean common/temp_modules folder">>,
                       <<"Creating temp projects...">>>>
                \/ console = <<<<"Starting \"rush generate\"">>,
                               <<"Deleting common/temp_modules folder">>,
                               <<"Creating a clean common/temp_modules folder">>,
                               <<"Creating temp projects...">>>>
    /\ pc = "failed" =>
            \E x \in 1..(i - 1) :
                projects[x].tempProjectName = projects[i].tempProjectName

\* C5 witness: a pair with a specifier that is no range, naming another
\* project of the workspace, has been handled
MalformedWitness ==
    /\ MalformedHandled
    /\ LastPair.packageName # projects[i].packageName

\* C6: when the run succeeds, the dependencies of common/package.json have
\* one entry per project: the keys are the tempProjectNames, as many as the
\* projects, each with the value 'file:./temp_modules/' + tempProjectName.
AggregateLaw ==
    pc = "done" =>
        /\ commonFile # Undefined
        /\ KeySet(commonFile[1].dependencies)
                = {projects[j].tempProjectName : j \in 1..Len(projects)}
        /\ Len(commonFile[1].dependencies) = Len(projects)
        /\ \A j \in 1..Len(projects) :
                Get(commonFile[1].dependencies, projects[j].tempProjectName)
                    = <<"file:./temp_modules/", projects[j].tempProjectName>>

\* C6 witness: a run over two projects has succeeded
AggregateWitness ==
    /\ pc = "done"
    /\ Len(projects) = 2
    /\ Len(commonFile[1].dependencies) = 2

\* C7: a second run on the same rush.json and package.json files ends as the
\* first did and leaves the same files, with the same order of the keys.
Determinism ==
    (run > 1 /\ pc \in {"done", "failed"}) => Output = prev

\* C7 witness: a second run over two projects has succeeded, one of the temp
\* package.json files having two keys in dependencies
DeterminismWitness ==
    /\ run = 2
    /\ pc = "done"
    /\ Len(commonFile[1].dependencies) = 2
    /\ \E t \in Written : Len(tempFiles[t][1].dependencies) = 2

NoVersion ==
    {projects[j].packageName : j \in
        {h \in 1..Len(projects) : projects[h].packageJson.version = Undefined}}

\* C9 as stated: when a project has no version the run fails before any pair
\* is classified and before any file is written.
MissingVersionFailsFast ==
    NoVersion # {} =>
        /\ pc \notin {"pairs", "done"}
        /\ Written = {}
        /\ commonFile = Undefined

\* C9 amended: a missing version raises no error: the run fails only at a
\* tempProjectName already taken, no pair that names the project without
\* version is recorded under rushDependencies, and a run that succeeds has
\* written the temp package.json of every project.
MissingVersionNeverLinks ==
    NoVersion # {} =>
        /\ pc = "failed" => Collision
        /\ pc = "pairs" => RushKeys(tempPackageJson) \cap NoVersion = {}
        /\ \A t \in Written : RushKeys(tempFiles[t][1]) \cap NoVersion = {}
        /\ pc = "done" =>
                Written = {projects[j].tempProjectName :
                              j \in 1..Len(projects)}

\* C9 witness: a run has succeeded in which a project has a dependency, with
\* a range and no exemption, on another project that has no version
MissingVersionWitness ==
    /\ pc = "done"
    /\ \E j \in 1..Len(projects) :
        LET runtime == ObjectOf(projects[j].packageJson.dependencies) IN
        /\ Len(runtime) = 1
        /\ runtime[1][1] \in NoVersion
        /\ runtime[1][1] # projects[j].packageName
        /\ runtime[1][2].op = "^"
        /\ runtime[1][1] \notin projects[j].cyclicDependencyProjects

\* C10: the keys of rushDependencies and dependencies of a temp package.json
\* written are the names of the project's devDependencies and dependencies:
\* a name of optionalDependencies alone is under neither.
OptionalNeverClassified ==
    \A t \in Written :
        RushKeys(tempFiles[t][1]) \cup KeySet(tempFiles[t][1].dependencies)
            = DeclaredNames(Writer(t))

\* C10 witness: a temp package.json is written for a project whose only
\* optional dependency is a workspace project, not exempted, of a version
\* in the range
OptionalNeverClassifiedWitness ==
    \E t \in Written :
        LET project == Writer(t)
            optional == PairsOf(project.packageJson.optionalDependencies)
        IN  /\ Len(optional) = 1
            /\ optional[1].packageName \notin DeclaredNames(project)
            /\ optional[1].packageName
                   \notin project.cyclicDependencyProjects
            /\ VersionSatisfies(optional[1].packageName,
                                optional[1].packageVersion)

====
